---- MODULE Spec2Model ----
(***************************************************************************)
(* Certificate lifecycle and verification of the certificate routes        *)
(* (src/unnamed/part_000) together with the ledger helpers                 *)
(* (src/src/utils/pdfGenerator.ts, createCertificateAsset and              *)
(* verifyCertificateOnChain).                                              *)
(*                                                                         *)
(* Every await of the approve handler is a separate step, so that several  *)
(* approve calls interleave at exactly the points where the event loop may *)
(* switch between them.  The other handlers touch the store in one place   *)
(* and are single steps.  The variable out is the HTTP response emitted by *)
(* the most recent step (NoResponse when that step emitted none), so a     *)
(* predicate on out speaks about the store as the responding handler left  *)
(* it.                                                                     *)
(***************************************************************************)
EXTENDS Integers, Sequences, FiniteSets, TLC

VARIABLES requests, certificates, ledger, calls, mnemonic, out

vars == <<requests, certificates, ledger, calls, mnemonic, out>>

\* ------------------------------------------------------------------ bounds
MaxRequests == 1

\* ------------------------------------------------------- optional values
None == <<>>
Some(x) == <<x>>
IsSome(o) == o # <<>>
Get(o) == o[1]

\* ----------------------------------------------------------- fixed tables
\* Rows of the institution table (id -> name).
Institutions == {"inst1", "inst2"}
InstitutionName(i) == IF i = "inst1" THEN "MIT" ELSE "ETH"

\* Rows of the user table: the JWT payload role and the user's institution.
Users == {
  [userId |-> "stu", role |-> "STUDENT", institution |-> None],
  [userId |-> "admA", role |-> "INSTITUTION_ADMIN", institution |-> Some("inst1")],
  [userId |-> "admB", role |-> "ADMIN", institution |-> Some("inst2")] }

\* Values the credential id generator may return (uuid prefix), values of
\* new Date(), and the request body fields ("" is a missing field).
CredIds == {"CERT-AAAAAAAA", "CERT-BBBBBBBB"}
Dates == {1}
InstitutionInputs == {"", "inst1", "inst9"}
NameInputs == {"", "Jane Doe"}
CourseInputs == {"", "CS101"}
TypeInputs == {"", "REGULAR"}
ReasonInputs == {"", "incomplete"}
CredIdInputs == CredIds \cup {""}

RequestIds == 1..MaxRequests
\* The approve calls that get past their checks: two, which may overlap.
Slots == {1, 2}

NoResponse == [op |-> "none"]

\* --------------------------------------------------------------- hashing
\* JSON.stringify of the certificateData object: its keys in insertion order.
JSONstringify(d) ==
  << <<"credentialId", d.credentialId>>, <<"studentName", d.studentName>>,
     <<"courseName", d.courseName>>, <<"institutionName", d.institutionName>>,
     <<"issueDate", d.issueDate>>, <<"requestId", d.requestId>> >>

\* crypto.createHash('sha256').update(s).digest('hex'), as an ideal hash:
\* distinct inputs have distinct digests.
Sha256Hex(s) == <<"sha256", s>>

\* --------------------------------------------------------------- lookups
RequestExists(rid) == rid \in 1..Len(requests)

CertificateOf(cid) == {c \in certificates : c.credentialId = cid}

TheCertificate(cid) == CHOOSE c \in certificates : c.credentialId = cid

IsApprover(u) == u.role = "INSTITUTION_ADMIN" \/ u.role = "ADMIN"

BelongsTo(u, institutionId) == u.institution = Some(institutionId)

IdleCall ==
  [pc |-> "idle", userId |-> "", requestId |-> 0, readStatus |-> "",
   credentialId |-> "",
   certificateData |-> None, certificateHash |-> None, anchor |-> "none",
   round |-> 0, algorandAssetId |-> None, algorandTxId |-> None]

\* A call that has responded: its locals are gone.
DoneCall == [IdleCall EXCEPT !.pc = "done"]

\* A handler step runs once the response of the previous step is delivered.
Ready == out = NoResponse

\* ------------------------------------------------------------------ Init
Init ==
  /\ requests = <<>>
  /\ certificates = {}
  /\ ledger = {}
  /\ calls = [p \in Slots |-> IdleCall]
  /\ mnemonic \in BOOLEAN
  /\ out = NoResponse

\* ---------------------------------------------------------------- submit
\* POST /request without the institution lookup of lines 60-70.
SubmitNoLookup(u, institutionId, studentName, courseName, studentType) ==
  /\ Ready
  /\ UNCHANGED <<certificates, ledger, calls, mnemonic>>
  /\ IF u.role # "STUDENT"
       THEN /\ out' = [op |-> "request", http |-> 403]
            /\ UNCHANGED requests
     ELSE IF institutionId = "" \/ studentName = "" \/ courseName = ""
             \/ studentType = ""
       THEN /\ out' = [op |-> "request", http |-> 400]
            /\ UNCHANGED requests
     ELSE /\ Len(requests) < MaxRequests
          /\ requests' = Append(requests,
               [id |-> Len(requests) + 1, studentId |-> u.userId,
                institutionId |-> institutionId, studentName |-> studentName,
                courseName |-> courseName, studentType |-> studentType,
                status |-> "PENDING", rejectionReason |-> None])
          /\ out' = [op |-> "request", http |-> 201]

\* POST /request: role check, required fields, institution lookup, create.
Submit(u, institutionId, studentName, courseName, studentType) ==
  /\ Ready
  /\ UNCHANGED <<certificates, ledger, calls, mnemonic>>
  /\ IF u.role # "STUDENT"
       THEN /\ out' = [op |-> "request", http |-> 403]
            /\ UNCHANGED requests
     ELSE IF institutionId = "" \/ studentName = "" \/ courseName = ""
             \/ studentType = ""
       THEN /\ out' = [op |-> "request", http |-> 400]
            /\ UNCHANGED requests
     ELSE IF institutionId \notin Institutions
       THEN /\ out' = [op |-> "request", http |-> 404]
            /\ UNCHANGED requests
     ELSE /\ Len(requests) < MaxRequests
          /\ requests' = Append(requests,
               [id |-> Len(requests) + 1, studentId |-> u.userId,
                institutionId |-> institutionId, studentName |-> studentName,
                courseName |-> courseName, studentType |-> studentType,
                status |-> "PENDING", rejectionReason |-> None])
          /\ out' = [op |-> "request", http |-> 201]

\* --------------------------------------------------------------- approve
\* The response of an approve call that reached the certificate create
\* (lines 370-390), with the locals of the call it ends.
ApproveResponse(call, http, error) ==
  [op |-> "approve", http |-> http, error |-> error,
   userId |-> call.userId, requestId |-> call.requestId, readStatus |-> call.readStatus,
   credentialId |-> call.credentialId, anchor |-> call.anchor,
   algorandAssetId |-> call.algorandAssetId,
   algorandTxId |-> call.algorandTxId]

\* Lines 291-302: the hashed object and its digest.
CertificateData(credentialId, request, issueDate) ==
  [credentialId |-> credentialId, studentName |-> request.studentName,
   courseName |-> request.courseName,
   institutionName |-> InstitutionName(request.institutionId),
   issueDate |-> issueDate, requestId |-> request.id]

CertificateHash(certificateData) == Sha256Hex(JSONstringify(certificateData))

\* The check of lines 273-285 left out.
ApproveMayProceedUnchecked(u, request) == TRUE

\* Whether approve goes on with the request it has read (lines 265-285 hold
\* the only conditions: the request exists and is of the caller's institution).
ApproveMayProceed(u, request) == BelongsTo(u, request.institutionId)

\* Lines 310-312: the ledger call is made only with INSTITUTION_MNEMONIC set.
FirstAwaitAlwaysAnchor == "anchor"

FirstAwait == IF mnemonic THEN "anchor" ELSE "update"

IdleSlots == {p \in Slots : calls[p].pc = "idle"}

FreeSlot == CHOOSE p \in IdleSlots : \A q \in IdleSlots : p <= q

\* Lines 245-302: role check, the two store reads, credential id and hash.
\* A call that passes the checks takes the next unused slot of calls, which
\* keeps its locals until it responds; with no mnemonic configured it has
\* no ledger await and goes on to the update.
ApproveStart(u, rid, credentialId, issueDate) ==
  /\ Ready
  /\ UNCHANGED <<requests, certificates, ledger, mnemonic>>
  /\ IF ~IsApprover(u)
       THEN /\ out' = [op |-> "approve", http |-> 403, error |-> "role"]
            /\ UNCHANGED calls
     ELSE IF ~RequestExists(rid)
       THEN /\ out' = [op |-> "approve", http |-> 404, error |-> "request"]
            /\ UNCHANGED calls
     ELSE IF ~ApproveMayProceed(u, requests[rid])
       THEN /\ out' = [op |-> "approve", http |-> 403, error |-> "institution"]
            /\ UNCHANGED calls
     ELSE /\ IdleSlots # {}
          /\ LET data == CertificateData(credentialId, requests[rid], issueDate)
             IN calls' = [calls EXCEPT ![FreeSlot] =
                  [pc |-> FirstAwait, userId |-> u.userId,
                   requestId |-> rid, readStatus |-> requests[rid].status,
                   credentialId |-> credentialId,
                   certificateData |-> Some(data),
                   certificateHash |-> Some(CertificateHash(data)),
                   anchor |-> IF FirstAwait = "anchor" THEN "none"
                                                       ELSE "skipped",
                   round |-> 0,
                   algorandAssetId |-> None, algorandTxId |-> None]]
          /\ out' = NoResponse

\* createCertificateAsset (pdfGenerator.ts 273-318) as seen by approve:
\* "confirmed" returns the asset id and transaction id; "rejected" throws at
\* sendRawTransaction; "timeout" throws at waitForConfirmation after 3
\* rounds (a transaction not confirmed by then is taken to be dropped).
\* The asset's note is {credentialId, certificateHash}.
AnchorOutcomes == {"confirmed", "rejected", "timeout"}

NextAssetId == Cardinality(ledger) + 1

Asset(call) ==
  [assetId |-> NextAssetId, credentialId |-> call.credentialId,
   certificateHash |-> Get(call.certificateHash)]

\* Lines 309-337: the locals after the try/catch around the ledger call.
AfterAnchorUncaught(call, outcome, assetId) ==
  IF outcome = "confirmed"
    THEN [call EXCEPT !.pc = "update", !.anchor = "confirmed",
                      !.algorandAssetId = Some(assetId),
                      !.algorandTxId = Some(assetId)]
    ELSE [call EXCEPT !.pc = "done", !.anchor = "failed"]

\* The transaction id assigned from the submit response before the wait
\* for confirmation: a wait that fails leaves it without an asset id.
AfterAnchorTxIdOnSubmit(call, outcome, assetId) ==
  IF outcome = "confirmed"
    THEN [call EXCEPT !.pc = "update", !.anchor = "confirmed",
                      !.algorandAssetId = Some(assetId),
                      !.algorandTxId = Some(assetId)]
    ELSE [call EXCEPT !.pc = "update", !.anchor = "failed",
                      !.algorandTxId = Some(assetId)]

AfterAnchor(call, outcome, assetId) ==
  IF outcome = "confirmed"
    THEN [call EXCEPT !.pc = "update", !.anchor = "confirmed",
                      !.algorandAssetId = Some(assetId),
                      !.algorandTxId = Some(assetId)]
    ELSE [call EXCEPT !.pc = "update", !.anchor = "failed"]

ApproveAnchor(p, outcome) ==
  /\ Ready
  /\ calls[p].pc = "anchor"
  /\ UNCHANGED <<requests, certificates, mnemonic>>
  /\ ledger' = IF outcome = "confirmed" THEN ledger \cup {Asset(calls[p])}
                ELSE ledger
  /\ calls' = [calls EXCEPT ![p] = AfterAnchor(calls[p], outcome, NextAssetId)]
  /\ out' = NoResponse

\* Lines 339-343: the request row after the update.
ApprovedRequest(request) == [request EXCEPT !.status = "APPROVED"]

ApproveUpdate(p) ==
  /\ Ready
  /\ calls[p].pc = "update"
  /\ requests' = [requests EXCEPT ![calls[p].requestId] =
                    ApprovedRequest(requests[calls[p].requestId])]
  /\ calls' = [calls EXCEPT ![p].pc = "create"]
  /\ out' = NoResponse
  /\ UNCHANGED <<certificates, ledger, mnemonic>>

\* The row without its status 'ACTIVE', left to a column default.
CertificateDataToSaveNoStatus(call, request, issueDate) ==
  [credentialId |-> call.credentialId, studentId |-> request.studentId,
   institutionId |-> request.institutionId,
   studentName |-> request.studentName, courseName |-> request.courseName,
   issueDate |-> issueDate, certificateHash |-> Get(call.certificateHash),
   certificateData |-> Get(call.certificateData), status |-> "PENDING",
   algorandAssetId |-> call.algorandAssetId,
   algorandTxId |-> call.algorandTxId]

\* Lines 345-364: the row handed to prisma.certificate.create.
CertificateDataToSave(call, request, issueDate) ==
  [credentialId |-> call.credentialId, studentId |-> request.studentId,
   institutionId |-> request.institutionId,
   studentName |-> request.studentName, courseName |-> request.courseName,
   issueDate |-> issueDate, certificateHash |-> Get(call.certificateHash),
   certificateData |-> Get(call.certificateData), status |-> "ACTIVE",
   algorandAssetId |-> call.algorandAssetId,
   algorandTxId |-> call.algorandTxId]

\* prisma.certificate.upsert in place of create: the row of a credential id
\* already stored is overwritten.
ApproveCreateUpsert(p, issueDate) ==
  /\ Ready
  /\ calls[p].pc = "create"
  /\ issueDate >= Get(calls[p].certificateData).issueDate
  /\ UNCHANGED <<requests, ledger, mnemonic>>
  /\ calls' = [calls EXCEPT ![p] = DoneCall]
  /\ certificates' = (certificates \ CertificateOf(calls[p].credentialId)) \cup
        {CertificateDataToSave(calls[p], requests[calls[p].requestId],
                               issueDate)}
  /\ out' = ApproveResponse(calls[p], 200, "none")

\* The create over a credentialId column that is not unique.
ApproveCreateNoConstraint(p, issueDate) ==
  /\ Ready
  /\ calls[p].pc = "create"
  /\ issueDate >= Get(calls[p].certificateData).issueDate
  /\ UNCHANGED <<requests, ledger, mnemonic>>
  /\ calls' = [calls EXCEPT ![p] = DoneCall]
  /\ certificates' = certificates \cup
        {CertificateDataToSave(calls[p], requests[calls[p].requestId],
                               issueDate)}
  /\ out' = ApproveResponse(calls[p], 200, "none")

\* Lines 366-390: create the certificate; the unique credentialId column
\* makes the create throw when the id is taken, which the catch turns into 500.
\* The row is built from the request as read at the start of the call.
ApproveCreate(p, issueDate) ==
  /\ Ready
  /\ calls[p].pc = "create"
  /\ issueDate >= Get(calls[p].certificateData).issueDate
  /\ UNCHANGED <<requests, ledger, mnemonic>>
  /\ calls' = [calls EXCEPT ![p] = DoneCall]
  /\ IF CertificateOf(calls[p].credentialId) # {}
       THEN /\ UNCHANGED certificates
            /\ out' = ApproveResponse(calls[p], 500, "unique")
       ELSE /\ certificates' = certificates \cup
                 {CertificateDataToSave(calls[p],
                    requests[calls[p].requestId], issueDate)}
            /\ out' = ApproveResponse(calls[p], 200, "none")

\* ---------------------------------------------------------------- reject
\* Lines 439-446: the request row after the update.
RejectedRequest(request, reason) ==
  [request EXCEPT !.status = "REJECTED",
                  !.rejectionReason =
                     Some(IF reason = "" THEN "Request rejected by institution"
                                         ELSE reason)]

\* Whether reject goes on with the request it has read (lines 417-437).
RejectMayProceed(u, request) == BelongsTo(u, request.institutionId)

\* POST /reject/:id.  Its reads are of rows no handler deletes and of the
\* immutable institution column, so the handler is one step.
Reject(u, rid, reason) ==
  /\ Ready
  /\ UNCHANGED <<certificates, ledger, calls, mnemonic>>
  /\ IF ~IsApprover(u)
       THEN /\ out' = [op |-> "reject", http |-> 403]
            /\ UNCHANGED requests
     ELSE IF ~RequestExists(rid)
       THEN /\ out' = [op |-> "reject", http |-> 404]
            /\ UNCHANGED requests
     ELSE IF ~RejectMayProceed(u, requests[rid])
       THEN /\ out' = [op |-> "reject", http |-> 403]
            /\ UNCHANGED requests
     ELSE /\ requests' = [requests EXCEPT ![rid] =
                            RejectedRequest(requests[rid], reason)]
          /\ out' = [op |-> "reject", http |-> 200, userId |-> u.userId,
                     requestId |-> rid,
                     readStatus |-> requests[rid].status,
                     readReason |-> requests[rid].rejectionReason]

\* ---------------------------------------------------------------- verify
\* What indexer.lookupAssetByID(...).do() gives: the asset, a reply without
\* an asset, or a thrown error (unreachable indexer, malformed reply).
LookupOutcomes == {"found", "absent", "error"}

\* A catch block that reports the asset as valid.
VerifyCertificateOnChainCatchValid(lookup, assetId, expectedHash) ==
  IF lookup \in {"found", "error"}
    THEN [isValid |-> TRUE, owner |-> Some("creator"),
          metadata |-> Some([name |-> assetId, url |-> assetId])]
    ELSE [isValid |-> FALSE, owner |-> None, metadata |-> None]

\* verifyCertificateOnChain (pdfGenerator.ts 354-389); expectedHash is a
\* parameter the function never reads.
VerifyCertificateOnChain(lookup, assetId, expectedHash) ==
  IF lookup = "found"
    THEN [isValid |-> TRUE, owner |-> Some("creator"),
          metadata |-> Some([name |-> assetId, url |-> assetId])]
    ELSE [isValid |-> FALSE, owner |-> None, metadata |-> None]

\* Line 653: the ledger is consulted when the stored asset id is truthy.
ConsultsLedger(certificate) == IsSome(certificate.algorandAssetId)

\* Validity taken from the certificate being found.
IsValidIfFound(certificate) == certificate.status \in {"ACTIVE", "REVOKED"}

\* Line 647 and line 728.
IsValid(certificate) == certificate.status = "ACTIVE"

\* blockchainVerified initialised to true instead of false.
BlockchainVerifiedDefaultTrue(result) == IsSome(result) => Get(result).isValid

\* Lines 661-667: result is None when verifyCertificateOnChain was not called.
BlockchainVerified(result) == IsSome(result) /\ Get(result).isValid

BlockchainInfo(certificate, result) ==
  IF IsSome(result)
    THEN Some([assetId |-> Get(certificate.algorandAssetId),
               transactionId |-> certificate.algorandTxId,
               owner |-> Get(result).owner, metadata |-> Get(result).metadata])
    ELSE None

NotFoundAsInvalid ==
  [http |-> 200, success |-> TRUE, isValid |-> FALSE, certificate |-> None]

NotFoundResponse ==
  [http |-> 404, success |-> FALSE, error |-> "Certificate not found",
   isValid |-> FALSE]

\* Line 647: validity is the local status; the chain result has no part.
PostIsValidChainDecides(certificate, result) ==
  IsValid(certificate) /\ (IsSome(result) => Get(result).isValid)

PostIsValid(certificate, result) == IsValid(certificate)

\* Lines 673-692: the JSON sent by POST /verify for a certificate that exists.
VerifyPostResponse(certificate, result) ==
  [http |-> 200, success |-> TRUE, isValid |-> PostIsValid(certificate, result),
   blockchainVerified |-> BlockchainVerified(result),
   certificate |->
     IF PostIsValid(certificate, result)
       THEN Some([credentialId |-> certificate.credentialId,
                  studentName |-> certificate.studentName,
                  courseName |-> certificate.courseName,
                  institutionName |-> InstitutionName(certificate.institutionId),
                  issueDate |-> certificate.issueDate,
                  status |-> certificate.status,
                  certificateHash |-> certificate.certificateHash,
                  blockchain |-> BlockchainInfo(certificate, result)])
       ELSE None,
   message |->
     IF PostIsValid(certificate, result)
       THEN (IF BlockchainVerified(result)
               THEN "Certificate is valid and verified on Algorand blockchain"
               ELSE "Certificate is valid (blockchain verification pending)")
       ELSE "Certificate is not valid"]

\* The result of the chain check of lines 649-671 for a stored certificate
\* when the indexer answers with lookup.
ChainResult(certificate, lookup) ==
  IF ConsultsLedger(certificate)
    THEN Some(VerifyCertificateOnChain(lookup,
                Get(certificate.algorandAssetId), certificate.certificateHash))
    ELSE None

\* POST /verify writing the outcome of a failed chain check back to the
\* store: the Certificate is marked REVOKED.
VerifyPostMarking(credentialId, lookup) ==
  /\ Ready
  /\ UNCHANGED <<requests, ledger, calls, mnemonic>>
  /\ IF credentialId = ""
       THEN /\ UNCHANGED certificates
            /\ out' = [op |-> "verifyPost", credentialId |-> credentialId,
                       ledgerCalled |-> FALSE, lookup |-> "none",
                       response |-> [http |-> 400, success |-> FALSE,
                                     error |-> "Certificate ID is required"]]
     ELSE IF CertificateOf(credentialId) = {}
       THEN /\ UNCHANGED certificates
            /\ out' = [op |-> "verifyPost", credentialId |-> credentialId,
                       ledgerCalled |-> FALSE, lookup |-> "none",
                       response |-> NotFoundResponse]
     ELSE LET certificate == TheCertificate(credentialId)
              called == ConsultsLedger(certificate)
          IN /\ IF called
                  THEN lookup = "found" =>
                         \E a \in ledger :
                           a.assetId = Get(certificate.algorandAssetId)
                  ELSE lookup = "absent"
             /\ certificates' =
                  IF called /\ lookup # "found"
                    THEN (certificates \ {certificate}) \cup
                           {[certificate EXCEPT !.status = "REVOKED"]}
                    ELSE certificates
             /\ out' = [op |-> "verifyPost", credentialId |-> credentialId,
                        ledgerCalled |-> called,
                        lookup |-> IF called THEN lookup ELSE "none",
                        response |-> VerifyPostResponse(certificate,
                                       ChainResult(certificate, lookup))]

\* POST /verify (lines 617-700).  out records, next to the response, the
\* credential id asked for, whether verifyCertificateOnChain was called and
\* what the indexer answered.
VerifyPost(credentialId, lookup) ==
  /\ Ready
  /\ UNCHANGED <<requests, certificates, ledger, calls, mnemonic>>
  /\ IF credentialId = ""
       THEN out' = [op |-> "verifyPost", credentialId |-> credentialId,
                    ledgerCalled |-> FALSE, lookup |-> "none",
                    response |-> [http |-> 400, success |-> FALSE,
                                  error |-> "Certificate ID is required"]]
     ELSE IF CertificateOf(credentialId) = {}
       THEN out' = [op |-> "verifyPost", credentialId |-> credentialId,
                    ledgerCalled |-> FALSE, lookup |-> "none",
                    response |-> NotFoundResponse]
     ELSE LET certificate == TheCertificate(credentialId)
              called == ConsultsLedger(certificate)
          IN /\ IF called
                  THEN lookup = "found" =>
                         \E a \in ledger :
                           a.assetId = Get(certificate.algorandAssetId)
                  ELSE lookup = "absent"
             /\ out' = [op |-> "verifyPost", credentialId |-> credentialId,
                        ledgerCalled |-> called,
                        lookup |-> IF called THEN lookup ELSE "none",
                        response |-> VerifyPostResponse(certificate,
                                       ChainResult(certificate, lookup))]

\* The certificate object sent whatever the status.
VerifyGetResponseAlwaysDetails(certificate) ==
  [http |-> 200, success |-> TRUE, isValid |-> IsValid(certificate),
   certificate |->
     Some([credentialId |-> certificate.credentialId,
           studentName |-> certificate.studentName,
           courseName |-> certificate.courseName,
           institutionName |-> InstitutionName(certificate.institutionId),
           issueDate |-> certificate.issueDate,
           status |-> certificate.status])]

\* Lines 728-743: the JSON sent by GET /verify/:credentialId.
VerifyGetResponse(certificate) ==
  [http |-> 200, success |-> TRUE, isValid |-> IsValid(certificate),
   certificate |->
     IF IsValid(certificate)
       THEN Some([credentialId |-> certificate.credentialId,
                  studentName |-> certificate.studentName,
                  courseName |-> certificate.courseName,
                  institutionName |-> InstitutionName(certificate.institutionId),
                  issueDate |-> certificate.issueDate,
                  status |-> certificate.status])
       ELSE None]

\* GET /verify/:credentialId (lines 706-751); it has no ledger call.
VerifyGet(credentialId) ==
  /\ Ready
  /\ UNCHANGED <<requests, certificates, ledger, calls, mnemonic>>
  /\ out' = [op |-> "verifyGet", credentialId |-> credentialId,
             ledgerCalled |-> FALSE, lookup |-> "none",
             response |-> IF CertificateOf(credentialId) = {}
                            THEN NotFoundResponse
                            ELSE VerifyGetResponse(TheCertificate(credentialId))]

\* ---------------------------------------------------------------- revoke
\* POST /revoke: the certificate exists and is ACTIVE, it becomes REVOKED;
\* the ledger is not touched.
Revoke(credentialId) ==
  /\ Ready
  /\ UNCHANGED <<requests, ledger, calls, mnemonic>>
  /\ IF CertificateOf(credentialId) = {}
       THEN /\ out' = [op |-> "revoke", http |-> 404]
            /\ UNCHANGED certificates
     ELSE IF TheCertificate(credentialId).status # "ACTIVE"
       THEN /\ out' = [op |-> "revoke", http |-> 409]
            /\ UNCHANGED certificates
     ELSE /\ certificates' =
               (certificates \ {TheCertificate(credentialId)}) \cup
               {[TheCertificate(credentialId) EXCEPT !.status = "REVOKED"]}
          /\ out' = [op |-> "revoke", http |-> 200]

\* ------------------------------------------------------------------ Next
\* The response of the last step is delivered to its caller before the next
\* handler step runs.
Deliver ==
  /\ out # NoResponse
  /\ out' = NoResponse
  /\ UNCHANGED <<requests, certificates, ledger, calls, mnemonic>>

Next ==
  \/ Deliver
  \/ \E u \in Users, i \in InstitutionInputs, n \in NameInputs,
        c \in CourseInputs, t \in TypeInputs : Submit(u, i, n, c, t)
  \/ \E u \in Users, rid \in RequestIds, cid \in CredIds, d \in Dates :
        ApproveStart(u, rid, cid, d)
  \/ \E p \in Slots, o \in AnchorOutcomes : ApproveAnchor(p, o)
  \/ \E p \in Slots : ApproveUpdate(p)
  \/ \E p \in Slots, d \in Dates : ApproveCreate(p, d)
  \/ \E u \in Users, rid \in RequestIds, r \in ReasonInputs : Reject(u, rid, r)
  \/ \E cid \in CredIdInputs, l \in LookupOutcomes : VerifyPost(cid, l)
  \/ \E cid \in CredIds : VerifyGet(cid)
  \/ \E cid \in CredIds : Revoke(cid)

Spec == Init /\ [][Next]_vars

\* ------------------------------------------------ the ledger await in steps
\* createCertificateAsset (pdfGenerator.ts 273-318) as approve awaits it,
\* step by step: sendRawTransaction (306), then
\* algosdk.waitForConfirmation(client, txid, 3) (309), which looks for the
\* confirmation once per round and throws when the rounds are used up.
\* ApproveAnchor above is this await taken as one step.
WaitRounds == 3

\* The transaction sent again when the rounds are used up.
RetryAfterWaitExpired(call, assetId) ==
  [call EXCEPT !.pc = "anchor", !.round = 0]

\* waitForConfirmation throws after its last round; approve catches it.
AfterWaitExpired(call, assetId) == AfterAnchor(call, "timeout", assetId)

\* The round counter after a round without confirmation.
RoundAfterWait(round) == round + 1

\* sendRawTransaction: the node takes the transaction, or the call throws.
AnchorSubmit(p, accepted) ==
  /\ Ready
  /\ calls[p].pc = "anchor"
  /\ UNCHANGED <<requests, certificates, ledger, mnemonic>>
  /\ calls' = [calls EXCEPT ![p] =
                 IF accepted THEN [calls[p] EXCEPT !.pc = "wait"]
                 ELSE AfterAnchor(calls[p], "rejected", NextAssetId)]
  /\ out' = NoResponse

\* One turn of waitForConfirmation: out of rounds, it throws; else the
\* transaction is confirmed, or one more round has gone by.
AnchorRound(p, confirmed) ==
  /\ Ready
  /\ calls[p].pc = "wait"
  /\ UNCHANGED <<requests, certificates, mnemonic>>
  /\ out' = NoResponse
  /\ IF calls[p].round >= WaitRounds
       THEN /\ calls' = [calls EXCEPT ![p] =
                           AfterWaitExpired(calls[p], NextAssetId)]
            /\ UNCHANGED ledger
     ELSE IF confirmed
       THEN /\ calls' = [calls EXCEPT ![p] =
                           AfterAnchor(calls[p], "confirmed", NextAssetId)]
            /\ ledger' = ledger \cup {Asset(calls[p])}
     ELSE /\ calls' = [calls EXCEPT ![p].round = RoundAfterWait(calls[p].round)]
          /\ UNCHANGED ledger

\* One request has been submitted.
InitWait ==
  /\ requests = <<[id |-> 1, studentId |-> "stu", institutionId |-> "inst1",
                   studentName |-> "Jane Doe", courseName |-> "CS101",
                   studentType |-> "REGULAR", status |-> "PENDING",
                   rejectionReason |-> None]>>
  /\ certificates = {}
  /\ ledger = {}
  /\ calls = [p \in Slots |-> IdleCall]
  /\ mnemonic \in BOOLEAN
  /\ out = NoResponse

NextWait ==
  \/ Deliver
  \/ \E u \in Users, rid \in RequestIds, cid \in CredIds, d \in Dates :
        ApproveStart(u, rid, cid, d)
  \/ \E p \in Slots, a \in BOOLEAN : AnchorSubmit(p, a)
  \/ \E p \in Slots, c \in BOOLEAN : AnchorRound(p, c)
  \/ \E p \in Slots : ApproveUpdate(p)
  \/ \E p \in Slots, d \in Dates : ApproveCreate(p, d)

\* Every await of a call returns or throws and its continuation is run (the
\* event loop leaves no ready continuation behind), and every response is
\* delivered.
FairWait ==
  /\ WF_vars(Deliver)
  /\ \A p \in Slots :
       /\ SF_vars(\E a \in BOOLEAN : AnchorSubmit(p, a))
       /\ SF_vars(\E c \in BOOLEAN : AnchorRound(p, c))
       /\ SF_vars(ApproveUpdate(p))
       /\ SF_vars(\E d \in Dates : ApproveCreate(p, d))

SpecWait == InitWait /\ [][NextWait]_vars /\ FairWait

\* ------------------------------------------- verifyCertificateOnChain alone
\* verifyCertificateOnChain called on its own, for any asset id and expected
\* hash, against a ledger that holds assets created by createCertificateAsset
\* (note = {credentialId, certificateHash}, pdfGenerator.ts 289).
AssetIdInputs == {1, 2}

NoteHashes == {Sha256Hex(<<"a">>), Sha256Hex(<<"b">>)}

Ledgers ==
  {l \in SUBSET [assetId : AssetIdInputs, credentialId : CredIds,
                 certificateHash : NoteHashes] :
     \A a, b \in l : a.assetId = b.assetId => a = b}

InitAnchor ==
  /\ requests = <<>>
  /\ certificates = {}
  /\ ledger \in Ledgers
  /\ calls = [p \in Slots |-> IdleCall]
  /\ mnemonic = TRUE
  /\ out = NoResponse

\* One call verifyCertificateOnChain(indexer, assetId, expectedHash); the
\* indexer finds the asset only if the ledger holds it.
VerifyAnchor(assetId, expectedHash, lookup) ==
  /\ Ready
  /\ lookup = "found" => \E a \in ledger : a.assetId = assetId
  /\ UNCHANGED <<requests, certificates, ledger, calls, mnemonic>>
  /\ out' = [op |-> "verifyAnchor", assetId |-> assetId,
             expectedHash |-> expectedHash, lookup |-> lookup,
             result |-> VerifyCertificateOnChain(lookup, assetId, expectedHash)]

NextAnchor ==
  \/ Deliver
  \/ \E a \in AssetIdInputs, h \in NoteHashes, l \in LookupOutcomes :
        VerifyAnchor(a, h, l)

SpecAnchor == InitAnchor /\ [][NextAnchor]_vars

\* ------------------------------------------------------- hash utilities
\* A JavaScript object is the sequence of its own properties in insertion
\* order, each a pair <<key, value>>; a value is Some(v), or None for
\* undefined.  A string is itself; the only object-valued property is
\* metadata.
Keys(obj) == [i \in 1..Len(obj) |-> obj[i][1]]

Has(obj, k) == \E i \in 1..Len(obj) : obj[i][1] = k

\* obj.k: undefined when obj has no property k.
Prop(obj, k) ==
  IF Has(obj, k) THEN obj[CHOOSE i \in 1..Len(obj) : obj[i][1] = k][2]
  ELSE None

Reverse(obj) == [i \in 1..Len(obj) |-> obj[Len(obj) + 1 - i]]

\* Every property name of CertificateInput and CertificateMetadata
\* (types/index.ts 16-29) in the order Array.prototype.sort gives strings.
Alphabetical ==
  <<"courseName", "duration", "expiryDate", "gpa", "institutionName",
    "issueDate", "major", "metadata", "studentName">>

\* keys.sort()
Sort(keys) ==
  SelectSeq(Alphabetical, LAMBDA k : \E i \in 1..Len(keys) : keys[i] = k)

\* The field taken as it is: expiryDate: certificate.expiryDate.
NotDefaulted(v) == v

\* certificate.expiryDate || '' : undefined and '' are falsy.
OrEmptyString(v) == IF IsSome(v) /\ Get(v) # "" THEN v ELSE Some("")

\* certificate.metadata || {} : every object is truthy.
OrEmptyObject(v) == IF IsSome(v) THEN v ELSE Some(<<>>)

\* Lines 15-22: the object literal; a property read from a missing field is
\* there with the value undefined.
Data(certificate) ==
  << <<"studentName", Prop(certificate, "studentName")>>,
     <<"institutionName", Prop(certificate, "institutionName")>>,
     <<"courseName", Prop(certificate, "courseName")>>,
     <<"issueDate", Prop(certificate, "issueDate")>>,
     <<"expiryDate", OrEmptyString(Prop(certificate, "expiryDate"))>>,
     <<"metadata", OrEmptyObject(Prop(certificate, "metadata"))>> >>

\* JSON.stringify without a replacer: each object gives its own keys.
NestedOwnKeys(obj, K) == Keys(obj)

\* JSON.stringify(value, array): the array is the property list of every
\* object serialized, the nested ones included.
NestedPropertyList(obj, K) == K

RECURSIVE SerializeJSONObject(_, _)
RECURSIVE SerializeJSONProperties(_, _, _)
\* The text JSON.stringify gives for obj under the property list K, as the
\* sequence of its tokens: the properties named in K, in the order of K,
\* that obj has with a value other than undefined.
SerializeJSONProperties(obj, K, i) ==
  IF i > Len(K) THEN <<>>
  ELSE LET k == K[i]
           v == Prop(obj, k)
           member ==
             IF ~IsSome(v) THEN <<>>
             ELSE IF k = "metadata"
               THEN <<k>> \o SerializeJSONObject(Get(v),
                                NestedPropertyList(Get(v), K))
             ELSE <<k, Get(v)>>
       IN member \o SerializeJSONProperties(obj, K, i + 1)

SerializeJSONObject(obj, K) ==
  <<"{">> \o SerializeJSONProperties(obj, K, 1) \o <<"}">>

\* Line 24.
SortedJson(certificate) ==
  SerializeJSONObject(Data(certificate), Sort(Keys(Data(certificate))))

\* generateCertificateHash (part_001 13-28).
GenerateCertificateHash(certificate) == Sha256Hex(SortedJson(certificate))

\* verifyCertificateHash (part_001 43-49).
VerifyCertificateHash(certificate, expectedHash) ==
  GenerateCertificateHash(certificate) = expectedHash

\* The certificateData stored on a certificate (part_000 291-298, 356), as
\* the object read back from the store.
StoredPayload(certificateData) ==
  << <<"credentialId", Some(certificateData.credentialId)>>,
     <<"studentName", Some(certificateData.studentName)>>,
     <<"courseName", Some(certificateData.courseName)>>,
     <<"institutionName", Some(certificateData.institutionName)>>,
     <<"issueDate", Some(certificateData.issueDate)>>,
     <<"requestId", Some(certificateData.requestId)>> >>

\* substring(start, end) of a string given as the sequence of its characters.
Substring(str, start, end) ==
  SubSeq(str, start + 1, IF end < Len(str) THEN end ELSE Len(str))

HexDigits ==
  <<"0", "1", "2", "3", "4", "5", "6", "7",
    "8", "9", "a", "b", "c", "d", "e", "f">>

HexValue(c) == (CHOOSE i \in 1..Len(HexDigits) : HexDigits[i] = c) - 1

RECURSIVE ParseInt16(_)
\* parseInt(str, 16) of a string of hex digits, digit by digit from the left.
\* The number n is kept as its two 16-bit halves, n = hi * 65536 + lo, so
\* that no intermediate value leaves the 32-bit integers of the model.
ParseInt16(str) ==
  IF str = <<>> THEN [hi |-> 0, lo |-> 0]
  ELSE LET n == ParseInt16(SubSeq(str, 1, Len(str) - 1))
           lo == n.lo * 16 + HexValue(str[Len(str)])
       IN [hi |-> n.hi * 16 + lo \div 65536, lo |-> lo % 65536]

\* The hex part taken one character too long.
GenerateAssetHashNineChars(certificateHash) ==
  ParseInt16(Substring(certificateHash, 0, 9))

\* generateAssetHash (part_001 92-95).
GenerateAssetHash(certificateHash) ==
  ParseInt16(Substring(certificateHash, 0, 8))

\* ------------------------------------------- the hash utilities on their own
\* generateCertificateHash and generateAssetHash applied to inputs drawn from
\* bounded sets.  An input of generateCertificateHash comes with a second
\* one, which differs from it in at most one field or in the order of its
\* properties; a digest comes with a second one.
Optional(S) == {None} \cup {Some(x) : x \in S}

MetadataInputs ==
  LET gpa == <<"gpa", Some("3.9")>>
      major(v) == <<"major", Some(v)>>
  IN {<<>>, <<gpa>>} \cup
     UNION {{<<major(v)>>, <<major(v), gpa>>, <<gpa, major(v)>>} :
              v \in {"CS", "EE"}}

FieldInputs ==
  [studentName : Optional({"Jane Doe", "John Roe"}),
   institutionName : Optional({"MIT", "ETH"}),
   courseName : Optional({"CS101", "EE200"}),
   issueDate : Optional({"2024-01-01", "2024-06-30"}),
   expiryDate : Optional({"", "2030-01-01", "2031-01-01"}),
   metadata : Optional(MetadataInputs)]

\* The object that has the fields of r that are not None.
ObjectOf(r) ==
  SelectSeq(<< <<"studentName", r.studentName>>,
               <<"institutionName", r.institutionName>>,
               <<"courseName", r.courseName>>,
               <<"issueDate", r.issueDate>>,
               <<"expiryDate", r.expiryDate>>,
               <<"metadata", r.metadata>> >>,
            LAMBDA p : IsSome(p[2]))

\* obj with its properties, and those of its metadata, in reverse order.
DeepReverse(obj) ==
  [i \in 1..Len(obj) |->
     LET p == obj[Len(obj) + 1 - i]
     IN IF p[1] = "metadata" THEN <<p[1], Some(Reverse(Get(p[2])))>> ELSE p]

OtherInputs(r) ==
  {ObjectOf(q) :
     q \in {[r EXCEPT !.studentName = v] : v \in Optional({"John Roe"})}
       \cup {[r EXCEPT !.institutionName = v] : v \in Optional({"ETH"})}
       \cup {[r EXCEPT !.courseName = v] : v \in Optional({"EE200"})}
       \cup {[r EXCEPT !.issueDate = v] : v \in Optional({"2024-06-30"})}
       \cup {[r EXCEPT !.expiryDate = v] :
               v \in Optional({"", "2030-01-01", "2031-01-01"})}
       \cup {[r EXCEPT !.metadata = v] : v \in Optional(MetadataInputs)}}
    \cup {Reverse(ObjectOf(r)), DeepReverse(ObjectOf(r)),
          ObjectOf([r EXCEPT !.expiryDate = Some(""), !.metadata = Some(<<>>)])}

DigestLen == 9

HexSample == {"0", "9", "f"}

DigestInputs == [1..DigestLen -> HexSample]

OtherDigests(d) ==
  {[i \in 1..DigestLen |-> IF i > 8 THEN "a" ELSE d[i]],
   [d EXCEPT ![1] = "1"]}

InitHash ==
  /\ requests = <<>>
  /\ certificates = {}
  /\ ledger = {}
  /\ calls = [p \in Slots |-> IdleCall]
  /\ mnemonic = FALSE
  /\ \/ \E r \in FieldInputs : \E o \in OtherInputs(r) :
          out = [op |-> "input", certificate |-> ObjectOf(r), other |-> o]
     \/ \E d \in DigestInputs : \E o \in OtherDigests(d) :
          out = [op |-> "digest", certificateHash |-> d, other |-> o]

\* generateCertificateHash called on both inputs.
GenerateCertificateHashCall ==
  /\ out.op = "input"
  /\ UNCHANGED <<requests, certificates, ledger, calls, mnemonic>>
  /\ out' = [op |-> "generateCertificateHash",
             certificate |-> out.certificate, other |-> out.other,
             sortedJson |-> SortedJson(out.certificate),
             hash |-> GenerateCertificateHash(out.certificate),
             otherSortedJson |-> SortedJson(out.other),
             otherHash |-> GenerateCertificateHash(out.other)]

\* generateAssetHash called on both digests.
GenerateAssetHashCall ==
  /\ out.op = "digest"
  /\ UNCHANGED <<requests, certificates, ledger, calls, mnemonic>>
  /\ out' = [op |-> "generateAssetHash",
             certificateHash |-> out.certificateHash, other |-> out.other,
             value |-> GenerateAssetHash(out.certificateHash),
             otherValue |-> GenerateAssetHash(out.other)]

NextHash ==
  \/ GenerateCertificateHashCall
  \/ GenerateAssetHashCall

SpecHash == InitHash /\ [][NextHash]_vars

\* ---------------------------------------------------------------------
\* The stored asset id on its way to the indexer.  The store keeps
\* algorandAssetId as a BigInt; POST /verify passes
\* Number(certificate.algorandAssetId) and verifyCertificateOnChain passes
\* Number(assetId) to lookupAssetByID.  An id n is carried here as two
\* limbs, n = hi * 2^30 + lo with 0 <= lo < 2^30, so that ids around 2^53
\* (hi = 2^23 = 8388608) fit the checker's integers.

\* Stored ids below, at and above 2^53.
StoredHi ==
  {0, 1, 8388607, 8388608, 8388609, 16777215, 16777216, 33554432}

StoredLo ==
  {0, 1, 2, 3, 4, 5, 6, 7, 8, 1073741821, 1073741822, 1073741823}

StoredAssetIds == [hi : StoredHi, lo : StoredLo]

\* Distance between neighbouring doubles at n: 1 below 2^53, doubling with
\* every further power of two.
RECURSIVE Spacing(_)
Spacing(hi) == IF hi < 8388608 THEN 1 ELSE 2 * Spacing(hi \div 2)

\* Number(bigint): the nearest double, ties to the even significand.  It
\* never throws.  The spacing divides 2^30, so rounding acts on lo and
\* carries into hi when lo rounds up to 2^30.
NumberOfBigInt(id) ==
  LET sp == Spacing(id.hi)
      q == id.lo \div sp
      r == id.lo % sp
      up == \/ 2 * r > sp
            \/ 2 * r = sp /\ q % 2 = 1
      lo == IF up THEN (q + 1) * sp ELSE q * sp
  IN IF lo = 1073741824 THEN [hi |-> id.hi + 1, lo |-> 0]
                        ELSE [hi |-> id.hi, lo |-> lo]

\* Number(number) returns its argument.
NumberOfNumber(n) == n

InitConvert ==
  /\ requests = <<>>
  /\ certificates = {}
  /\ ledger = {}
  /\ calls = [p \in Slots |-> IdleCall]
  /\ mnemonic = TRUE
  /\ \E id \in StoredAssetIds : out = [op |-> "stored", assetId |-> id]

\* Lines 653-660 of the route and 362 of verifyCertificateOnChain: the
\* stored id is converted and looked up; no step of the path raises an
\* error for an id the conversion cannot represent.
LookupStoredAsset ==
  /\ out.op = "stored"
  /\ UNCHANGED <<requests, certificates, ledger, calls, mnemonic>>
  /\ out' = [op |-> "lookupAssetByID", stored |-> out.assetId,
             looked |-> NumberOfNumber(NumberOfBigInt(out.assetId)),
             threw |-> FALSE]

NextConvert == LookupStoredAsset

SpecConvert == InitConvert /\ [][NextConvert]_vars

\* ---------------------------------------------------------------- claims
CertificatesOfRequest(rid) ==
  {c \in certificates : c.certificateData.requestId = rid}

VerifiedExisting ==
  /\ out.op \in {"verifyPost", "verifyGet"}
  /\ out.credentialId # ""
  /\ CertificateOf(out.credentialId) # {}

\* C1: when approve calls on the same PENDING request overlap, exactly one
\* Certificate is created for the request: an approve call that read the
\* request as PENDING and answers with success leaves one Certificate of
\* that request in the store.
C1_ConcurrentApproveOneCertificate ==
  (out.op = "approve" /\ out.http = 200 /\ out.readStatus = "PENDING")
    => Cardinality(CertificatesOfRequest(out.requestId)) = 1

\* C2: approve requires the request to be PENDING: a call that read the
\* request as APPROVED or REJECTED does not answer with success.
C2_ApproveRequiresPending ==
  (out.op = "approve" /\ out.http = 200) => out.readStatus = "PENDING"

\* C3: reject of a request that is already REJECTED or APPROVED is refused:
\* reject answers with success only for a request it read as PENDING.
C3_RejectRequiresPending ==
  (out.op = "reject" /\ out.http = 200) => out.readStatus = "PENDING"

\* C4: in every reachable state the request a persisted Certificate
\* originates from exists and has status APPROVED.
C4_CertificateRequestApproved ==
  \A c \in certificates :
    /\ RequestExists(c.certificateData.requestId)
    /\ requests[c.certificateData.requestId].status = "APPROVED"

\* The Certificate an approve call has just created is ACTIVE and carries
\* neither asset id nor transaction id.
CreatedUnanchored ==
  \E c \in certificates :
    /\ c.credentialId = out.credentialId
    /\ c.status = "ACTIVE"
    /\ c.algorandAssetId = None
    /\ c.algorandTxId = None

\* C5: a failed anchoring attempt does not fail approve.  The call goes on
\* to the store writes with no ledger fields, its update makes the request
\* APPROVED, it answers with success unless the store refuses the certificate
\* row (credential id taken), the Certificate it creates is ACTIVE without
\* asset id and transaction id, and POST /verify of such a Certificate, while
\* it is ACTIVE, answers valid and not chain-confirmed.
C5_AnchorFailureNotFatal ==
  /\ [](\A p \in Slots :
          calls[p].anchor = "failed" =>
            /\ calls[p].pc \in {"update", "create"}
            /\ calls[p].algorandAssetId = None
            /\ calls[p].algorandTxId = None)
  /\ []((out.op = "approve" /\ out.http \in {200, 500}
           /\ out.anchor = "failed") =>
          /\ out.http = 200 \/ out.error = "unique"
          /\ out.http = 200 => CreatedUnanchored)
  /\ []((mnemonic /\ VerifiedExisting /\ out.op = "verifyPost"
           /\ TheCertificate(out.credentialId).status = "ACTIVE"
           /\ TheCertificate(out.credentialId).algorandAssetId = None) =>
          /\ out.response.http = 200
          /\ out.response.isValid
          /\ ~out.response.blockchainVerified)
  /\ [][\A p \in Slots :
          (calls[p].anchor = "failed" /\ calls[p].pc = "update"
             /\ calls'[p].pc = "create") =>
            requests'[calls[p].requestId].status = "APPROVED"]_vars

C5_Witness ==
  /\ mnemonic
  /\ VerifiedExisting
  /\ out.op = "verifyPost"
  /\ TheCertificate(out.credentialId).algorandAssetId = None
  /\ out.response.isValid
  /\ ~out.response.blockchainVerified

\* C6: with no signing identity configured no ledger call is made and
\* approve has the outcome of a failed anchoring: no asset is ever created,
\* every call goes from its checks to the store writes without ledger
\* fields, its update makes the request APPROVED, and it answers with
\* success (unless the credential id is taken) having created an ACTIVE
\* Certificate without asset id and transaction id.
C6_NoMnemonicNoAnchor ==
  /\ [](~mnemonic =>
          /\ ledger = {}
          /\ \A p \in Slots :
               calls[p].pc \notin {"idle", "done"} =>
                 /\ calls[p].pc \in {"update", "create"}
                 /\ calls[p].anchor = "skipped"
                 /\ calls[p].algorandAssetId = None
                 /\ calls[p].algorandTxId = None
          /\ (out.op = "approve" /\ out.http \in {200, 500}) =>
               /\ out.anchor = "skipped"
               /\ out.http = 200 \/ out.error = "unique"
               /\ out.http = 200 => CreatedUnanchored)
  /\ [][\A p \in Slots :
          (~mnemonic /\ calls[p].pc = "update" /\ calls'[p].pc = "create") =>
            requests'[calls[p].requestId].status = "APPROVED"]_vars

C6_Witness ==
  ~mnemonic /\ out.op = "approve" /\ out.http = 200 /\ CreatedUnanchored

\* C7: verify of a credential id no Certificate has answers not found
\* (404, "Certificate not found") with valid=false and no certificate
\* payload, and does not call the ledger.
C7_VerifyNotFound ==
  (out.op \in {"verifyPost", "verifyGet"} /\ out.credentialId # ""
     /\ CertificateOf(out.credentialId) = {}) =>
    /\ out.response.http = 404
    /\ out.response.error = "Certificate not found"
    /\ ~out.response.isValid
    /\ "certificate" \notin DOMAIN out.response
    /\ ~out.ledgerCalled

C7_Witness ==
  /\ out.op = "verifyPost"
  /\ out.credentialId # ""
  /\ certificates # {}
  /\ CertificateOf(out.credentialId) = {}
  /\ out.response.http = 404

\* C8: when verify finds a Certificate that is not ACTIVE it answers
\* valid=false and the ledger is not consulted, also when the Certificate
\* has an asset id.
C8_NonActiveSkipsLedger ==
  (VerifiedExisting /\ TheCertificate(out.credentialId).status # "ACTIVE") =>
    /\ ~out.response.isValid
    /\ ~out.ledgerCalled

\* C9: for every Certificate found, verify answers valid=true exactly when
\* the Certificate's status is ACTIVE, whatever the chain check gives; the
\* certificate payload is sent exactly when valid.
C9_ValidIffActive ==
  VerifiedExisting =>
    /\ out.response.http = 200
    /\ out.response.isValid
         <=> TheCertificate(out.credentialId).status = "ACTIVE"
    /\ out.response.isValid <=> IsSome(out.response.certificate)

C9_Witness ==
  /\ VerifiedExisting
  /\ out.op = "verifyPost"
  /\ out.lookup \in {"absent", "error"}
  /\ out.response.isValid

\* Certificates that differ from c only in subject, course, institution,
\* hash or ledger fields.
Variants(c) ==
  {[c EXCEPT !.studentName = n, !.courseName = k, !.institutionId = i,
             !.certificateHash = h, !.algorandAssetId = a,
             !.algorandTxId = a] :
     n \in {c.studentName, "John Roe"}, k \in {c.courseName, "EE200"},
     i \in Institutions, h \in {c.certificateHash, Sha256Hex(<<>>)},
     a \in {c.algorandAssetId, None}}

\* C10: when verify answers valid=false its output holds nothing of the
\* certificate: for the same indexer answer, POST /verify gives the same
\* response for every Certificate that differs from the stored one only in
\* subject, course, institution, hash or ledger fields.
C10_InvalidOutputIndependent ==
  (VerifiedExisting /\ out.op = "verifyPost" /\ ~out.response.isValid) =>
    \A v \in Variants(TheCertificate(out.credentialId)) :
      VerifyPostResponse(v, ChainResult(v, out.lookup)) = out.response

\* C11: POST /verify of an ACTIVE Certificate that has no asset id does not
\* call verifyCertificateOnChain and answers with success, valid=true and
\* chain-confirmed=false; the payload carries no ledger block.
C11_UnanchoredActiveVerify ==
  (VerifiedExisting /\ out.op = "verifyPost"
     /\ TheCertificate(out.credentialId).status = "ACTIVE"
     /\ TheCertificate(out.credentialId).algorandAssetId = None) =>
    /\ ~out.ledgerCalled
    /\ out.lookup = "none"
    /\ out.response.http = 200
    /\ out.response.isValid
    /\ ~out.response.blockchainVerified
    /\ Get(out.response.certificate).blockchain = None

C11_Witness ==
  /\ VerifiedExisting
  /\ out.op = "verifyPost"
  /\ TheCertificate(out.credentialId).status = "ACTIVE"
  /\ TheCertificate(out.credentialId).algorandAssetId = None
  /\ ~out.ledgerCalled
  /\ out.response.isValid

\* C12: when the indexer is unreachable or answers with an error while POST
\* /verify cross-checks an ACTIVE Certificate that has an asset id, verify
\* still answers with success: valid=true with the certificate payload and
\* chain-confirmed=false.
C12_LedgerErrorNotFatal ==
  (VerifiedExisting /\ out.op = "verifyPost" /\ out.lookup = "error"
     /\ TheCertificate(out.credentialId).status = "ACTIVE") =>
    /\ out.ledgerCalled
    /\ out.response.http = 200
    /\ out.response.success
    /\ out.response.isValid
    /\ IsSome(out.response.certificate)
    /\ ~out.response.blockchainVerified

C12_Witness ==
  /\ VerifiedExisting
  /\ out.op = "verifyPost"
  /\ out.lookup = "error"
  /\ IsSome(TheCertificate(out.credentialId).algorandAssetId)
  /\ TheCertificate(out.credentialId).status = "ACTIVE"
  /\ out.response.isValid
  /\ ~out.response.blockchainVerified

\* C13: verifyCertificateOnChain(assetId, expectedHash) answers valid=true
\* only if the ledger holds the asset and the certificate hash recorded in
\* the asset's note equals expectedHash.
C13_AnchorValidOnlyIfFingerprintMatches ==
  (out.op = "verifyAnchor" /\ out.result.isValid) =>
    \E a \in ledger :
      a.assetId = out.assetId /\ a.certificateHash = out.expectedHash

C15_StoredHashReproducible ==
  \A c \in certificates :
    VerifyCertificateHash(StoredPayload(c.certificateData), c.certificateHash)

RequiredFields == {"studentName", "institutionName", "courseName", "issueDate"}

ScalarFields == RequiredFields \cup {"expiryDate"}

MetadataFields == {"major", "gpa", "duration"}

\* A payload that has every required field.
ValidPayload(obj) == \A k \in RequiredFields : IsSome(Prop(obj, k))

\* Both payloads have the field, or the metadata entry, with different values.
DifferInAFieldValue(a, b) ==
  \/ \E k \in ScalarFields :
       /\ IsSome(Prop(a, k)) /\ IsSome(Prop(b, k))
       /\ Prop(a, k) # Prop(b, k)
  \/ /\ IsSome(Prop(a, "metadata")) /\ IsSome(Prop(b, "metadata"))
     /\ \E k \in MetadataFields :
          LET x == Prop(Get(Prop(a, "metadata")), k)
              y == Prop(Get(Prop(b, "metadata")), k)
          IN IsSome(x) /\ IsSome(y) /\ x # y

\* The two payloads have the same fields and metadata entries with the same
\* values, whatever the order of their properties.
SameFieldValues(a, b) ==
  /\ \A k \in ScalarFields : Prop(a, k) = Prop(b, k)
  /\ IsSome(Prop(a, "metadata")) <=> IsSome(Prop(b, "metadata"))
  /\ IsSome(Prop(a, "metadata")) =>
       \A k \in MetadataFields :
         Prop(Get(Prop(a, "metadata")), k) = Prop(Get(Prop(b, "metadata")), k)

\* C16: for two valid payloads that differ in the value of a field
\* (studentName, institutionName, courseName, issueDate, expiryDate or an
\* entry of metadata), the text generateCertificateHash hashes differs, and
\* so do the digests.
C16_FingerprintInjectiveOnFields ==
  (out.op = "generateCertificateHash"
     /\ ValidPayload(out.certificate) /\ ValidPayload(out.other)
     /\ DifferInAFieldValue(out.certificate, out.other)) =>
    /\ out.sortedJson # out.otherSortedJson
    /\ out.hash # out.otherHash

\* C18: two payloads with the same field values, whose top-level properties
\* or metadata keys come in different orders, get the same digest from
\* generateCertificateHash.
C18_KeyOrderIndependent ==
  (out.op = "generateCertificateHash"
     /\ SameFieldValues(out.certificate, out.other)) =>
    out.hash = out.otherHash

C18_Witness ==
  /\ out.op = "generateCertificateHash"
  /\ ValidPayload(out.certificate)
  /\ SameFieldValues(out.certificate, out.other)
  /\ Keys(out.other) = Reverse(Keys(out.certificate))
  /\ IsSome(Prop(out.certificate, "metadata"))
  /\ Len(Get(Prop(out.certificate, "metadata"))) = 2
  /\ Get(Prop(out.other, "metadata"))
       = Reverse(Get(Prop(out.certificate, "metadata")))
  /\ out.hash = out.otherHash

\* C19: generateCertificateHash called with a payload that lacks a required
\* field (studentName, institutionName, courseName or issueDate) returns no
\* digest.
C19_MissingRequiredFieldFails ==
  (out.op = "generateCertificateHash" /\ ~ValidPayload(out.certificate)) =>
    "hash" \notin DOMAIN out

\* C20: generateAssetHash(digest) is the base-16 value of the first 8
\* characters of the digest (given by its halves hi = the value of characters
\* 1-4 and lo = the value of characters 5-8), it lies in 0..2^32-1, and two
\* digests that share their first 8 characters get the same value.
C20_ShortFingerprintValue ==
  out.op = "generateAssetHash" =>
    LET d == out.certificateHash
        v(i) == HexValue(d[i])
    IN /\ out.value.hi = v(1) * 4096 + v(2) * 256 + v(3) * 16 + v(4)
       /\ out.value.lo = v(5) * 4096 + v(6) * 256 + v(7) * 16 + v(8)
       /\ out.value.hi \in 0..65535
       /\ out.value.lo \in 0..65535
       /\ SubSeq(out.other, 1, 8) = SubSeq(d, 1, 8) =>
            out.otherValue = out.value

C20_Witness ==
  /\ out.op = "generateAssetHash"
  /\ out.other # out.certificateHash
  /\ SubSeq(out.other, 1, 8) = SubSeq(out.certificateHash, 1, 8)
  /\ out.certificateHash[1] = "f"
  /\ out.value.hi >= 61440
  /\ out.otherValue = out.value

\* C21: no two persisted Certificates share a credential id, and a
\* Certificate keeps its credential id for good: every step leaves each
\* Certificate in the store under the same credential id with the same
\* payload and hash, also when an approve call draws an id already taken.
C21_CredentialIdUnique ==
  /\ [](\A c, d \in certificates : c.credentialId = d.credentialId => c = d)
  /\ [][\A c \in certificates :
          \E d \in certificates' :
            /\ d.credentialId = c.credentialId
            /\ d.certificateData = c.certificateData
            /\ d.certificateHash = c.certificateHash]_vars

C21_Witness ==
  /\ out.op = "approve"
  /\ out.http = 500
  /\ out.error = "unique"
  /\ Cardinality(CertificateOf(out.credentialId)) = 1
  /\ Cardinality(certificates) = 1

\* C22: a successful approve of a submitted request leaves a Certificate of
\* that request with the minted CERT- credential id and status ACTIVE; an
\* ACTIVE Certificate stays as it is in every step but its revocation; and
\* every verify of a Certificate that is not revoked answers valid=true
\* with the certificate payload.
C22_ApprovedCertificateVerifies ==
  /\ []((out.op = "approve" /\ out.http = 200) =>
          /\ out.credentialId \in CredIds
          /\ RequestExists(out.requestId)
          /\ \E c \in certificates :
               /\ c.credentialId = out.credentialId
               /\ c.certificateData.requestId = out.requestId
               /\ c.status = "ACTIVE")
  /\ [][\A c \in certificates :
          c.status = "ACTIVE" =>
            \/ c \in certificates'
            \/ /\ out'.op = "revoke"
               /\ [c EXCEPT !.status = "REVOKED"] \in certificates']_vars
  /\ []((VerifiedExisting
           /\ TheCertificate(out.credentialId).status # "REVOKED") =>
          /\ out.response.http = 200
          /\ out.response.isValid
          /\ IsSome(out.response.certificate)
          /\ Get(out.response.certificate).credentialId = out.credentialId
          /\ Get(out.response.certificate).status = "ACTIVE")

C22_Witness ==
  /\ VerifiedExisting
  /\ out.op = "verifyGet"
  /\ TheCertificate(out.credentialId).status = "ACTIVE"
  /\ requests[TheCertificate(out.credentialId).certificateData.requestId].status
       = "APPROVED"
  /\ out.response.isValid

\* C23: POST /request adds a request only as a PENDING one, made by a user
\* with the role STUDENT, with student name, course name and student type
\* present and an institution that exists, and then answers 201; with any
\* other answer (403, 400, 404) requests, certificates and ledger are left
\* as they were.
C23_SubmitValidates ==
  [][(out.op = "none" /\ out'.op = "request") =>
       IF out'.http = 201
         THEN /\ Len(requests') = Len(requests) + 1
              /\ SubSeq(requests', 1, Len(requests)) = requests
              /\ LET r == requests'[Len(requests')]
                 IN /\ r.status = "PENDING"
                    /\ \E u \in Users :
                         u.userId = r.studentId /\ u.role = "STUDENT"
                    /\ r.institutionId \in Institutions
                    /\ r.studentName # ""
                    /\ r.courseName # ""
                    /\ r.studentType # ""
         ELSE /\ out'.http \in {400, 403, 404}
              /\ UNCHANGED <<requests, certificates, ledger, calls>>]_vars

C23_Witness ==
  /\ out.op = "request"
  /\ out.http = 404
  /\ Len(requests) = 1
  /\ requests[1].status = "PENDING"

UserOf(userId) == CHOOSE u \in Users : u.userId = userId

\* The actor has an approver role and belongs to the request's institution.
Authorized(u, request) ==
  IsApprover(u) /\ u.institution = Some(request.institutionId)

\* C24: approve and reject go through only for an actor with an approver
\* role whose institution is the request's: every approve call past its
\* checks, every approve answer after the store writes and every successful
\* reject is of such an actor; a refused call (403) leaves requests,
\* certificates, ledger and the calls in progress as they were.
C24_OnlyAuthorizedActors ==
  /\ [](\A p \in Slots :
          calls[p].pc \notin {"idle", "done"} =>
            Authorized(UserOf(calls[p].userId), requests[calls[p].requestId]))
  /\ []((out.op = "approve" /\ out.http \in {200, 500}) =>
          Authorized(UserOf(out.userId), requests[out.requestId]))
  /\ []((out.op = "reject" /\ out.http = 200) =>
          Authorized(UserOf(out.userId), requests[out.requestId]))
  /\ [][(out.op = "none" /\ out'.op \in {"approve", "reject"}
            /\ out'.http = 403) =>
          UNCHANGED <<requests, certificates, ledger, calls>>]_vars

C24_Witness ==
  /\ out.op = "approve"
  /\ out.http = 403
  /\ out.error = "institution"
  /\ Len(requests) = 1
  /\ requests[1].status = "PENDING"
  /\ certificates = {}
  /\ ledger = {}

\* C25: the ledger fields of a Certificate are write-once: every step
\* leaves each Certificate of the store with the asset id and transaction id
\* it had, set or absent.
C25_LedgerFieldsWriteOnce ==
  [][\A c \in certificates :
       \E d \in certificates' :
         /\ d.credentialId = c.credentialId
         /\ d.algorandAssetId = c.algorandAssetId
         /\ d.algorandTxId = c.algorandTxId]_vars

C25_Witness ==
  /\ out.op = "approve"
  /\ out.http = 500
  /\ out.algorandAssetId = None
  /\ \E c \in CertificateOf(out.credentialId) :
       IsSome(c.algorandAssetId) /\ c.status = "REVOKED"

\* C26: inside approve the ledger call starts only after the local writes:
\* while a call is at its ledger await, its request is APPROVED and the
\* Certificate of the call is in the store.
C26_AnchorAfterLocalCommit ==
  \A p \in Slots :
    calls[p].pc = "anchor" =>
      /\ requests[calls[p].requestId].status = "APPROVED"
      /\ \E c \in certificates :
           /\ c.credentialId = calls[p].credentialId
           /\ c.certificateData.requestId = calls[p].requestId
           /\ c.status = "ACTIVE"

\* C27: in every reachable state a request is APPROVED if and only if a
\* Certificate of it is in the store.
C27_ApprovedIffCertificate ==
  \A rid \in 1..Len(requests) :
    requests[rid].status = "APPROVED" <=> CertificatesOfRequest(rid) # {}

\* C28: every ledger await ends: waitForConfirmation never goes past
\* WaitRounds rounds, a call that has used them up goes on as a failed
\* anchoring, every call at its ledger await reaches the store writes, and
\* every approve call past its checks eventually responds.
C28_AnchorCallTerminates ==
  /\ [](\A p \in Slots : calls[p].round <= WaitRounds)
  /\ [][\A p \in Slots :
          (calls[p].pc = "wait" /\ calls[p].round = WaitRounds
             /\ calls'[p] # calls[p]) =>
            (calls'[p].pc = "update" /\ calls'[p].anchor = "failed")]_vars
  /\ \A p \in Slots :
       /\ (calls[p].pc \in {"anchor", "wait"}) ~> (calls[p].pc = "update")
       /\ (calls[p].pc \notin {"idle", "done"}) ~> (calls[p].pc = "done")

C28_Witness ==
  \E p \in Slots :
    /\ calls[p].pc = "update"
    /\ calls[p].anchor = "failed"
    /\ calls[p].round = WaitRounds
    /\ ledger = {}

\* The payload generateCertificateHash is meant to get for a Certificate:
\* subject, institution name, course and issue date, no expiry date and no
\* metadata.
CanonicalPayload(c) ==
  << <<"studentName", Some(c.studentName)>>,
     <<"institutionName", Some(InstitutionName(c.institutionId))>>,
     <<"courseName", Some(c.courseName)>>,
     <<"issueDate", Some(c.certificateData.issueDate)>> >>

\* C29: the hash approve stores on a Certificate is generateCertificateHash
\* of the canonical payload {studentName, institutionName, courseName,
\* issueDate, expiryDate, metadata} of its request.
C29_StoredHashIsFingerprint ==
  \A c \in certificates :
    c.certificateHash = GenerateCertificateHash(CanonicalPayload(c))

\* expiryDate, or '' when the payload has none; metadata, or {} likewise.
ExpiryDateOrDefault(obj) ==
  IF Has(obj, "expiryDate") THEN Prop(obj, "expiryDate") ELSE Some("")

MetadataOrDefault(obj) ==
  IF Has(obj, "metadata") THEN Prop(obj, "metadata") ELSE Some(<<>>)

\* C30: two payloads with the same required fields that differ only in
\* expiryDate being absent or '' and in metadata being absent or {} get the
\* same digest from generateCertificateHash.
C30_DefaultingInHash ==
  (out.op = "generateCertificateHash"
     /\ \A k \in RequiredFields :
          Prop(out.certificate, k) = Prop(out.other, k)
     /\ ExpiryDateOrDefault(out.certificate) = ExpiryDateOrDefault(out.other)
     /\ MetadataOrDefault(out.certificate) = MetadataOrDefault(out.other)) =>
    out.hash = out.otherHash

C30_Witness ==
  /\ out.op = "generateCertificateHash"
  /\ ValidPayload(out.certificate)
  /\ \A k \in RequiredFields : Prop(out.certificate, k) = Prop(out.other, k)
  /\ ~Has(out.certificate, "expiryDate")
  /\ ~Has(out.certificate, "metadata")
  /\ Prop(out.other, "expiryDate") = Some("")
  /\ Prop(out.other, "metadata") = Some(<<>>)
  /\ out.hash = out.otherHash

\* C31: a failed or malformed indexer answer is not reported as invalid:
\* the result verifyCertificateOnChain gives for it differs from the result
\* it gives when the indexer answers that the asset does not exist.
C31_LookupErrorInconclusive ==
  (out.op = "verifyAnchor" /\ out.lookup = "error") =>
    out.result # VerifyCertificateOnChain("absent", out.assetId,
                                          out.expectedHash)

\* C32: the stored asset id reaches the indexer unchanged, or the
\* conversion reports an overflow error; it is never silently altered.
C32_ConversionExactOrError ==
  out.op = "lookupAssetByID" => (out.looked = out.stored \/ out.threw)

\* The certificates that reference asset a with the credential id and the
\* fingerprint of its note.
CertificatesOfAsset(a) ==
  {c \in certificates :
     /\ c.algorandAssetId = Some(a.assetId)
     /\ c.credentialId = a.credentialId
     /\ c.certificateHash = a.certificateHash}

\* C33: once no approve call is in flight, every asset created and
\* confirmed on the ledger is referenced by exactly one stored Certificate
\* with the credential id and fingerprint of the asset's note.
C33_ConfirmedAssetHasCertificate ==
  (\A p \in Slots : calls[p].pc \in {"idle", "done"}) =>
    \A a \in ledger : Cardinality(CertificatesOfAsset(a)) = 1

\* C34: a Certificate has its ledger asset id and its ledger transaction
\* id both present or both absent, and so have the locals of every approve
\* call from which the Certificate row is built.
C34_LedgerFieldsTogether ==
  /\ \A c \in certificates :
       IsSome(c.algorandAssetId) <=> IsSome(c.algorandTxId)
  /\ \A p \in Slots :
       IsSome(calls[p].algorandAssetId) <=> IsSome(calls[p].algorandTxId)

C34_Witness ==
  \E c, d \in certificates :
    /\ IsSome(c.algorandAssetId) /\ IsSome(c.algorandTxId)
    /\ d.algorandAssetId = None /\ d.algorandTxId = None

\* C35: verify is read-only.  A step in which POST /verify or GET
\* /verify/:credentialId answers, whatever the answer (missing id, not
\* found, invalid, valid, chain check failed), changes no request, no
\* Certificate, no ledger asset and no approve call in flight.
C35_VerifyReadOnly ==
  [][out'.op \in {"verifyPost", "verifyGet"} =>
       UNCHANGED <<requests, certificates, ledger, calls, mnemonic>>]_vars

C35_Witness ==
  /\ VerifiedExisting
  /\ out.op = "verifyPost"
  /\ out.ledgerCalled
  /\ out.lookup = "absent"
  /\ ~out.response.blockchainVerified
  /\ TheCertificate(out.credentialId).status = "ACTIVE"
  /\ \E p \in Slots : calls[p].pc = "create"

\* What each verify route answers for credential id id on the current
\* store; POST with the indexer answering lookup.
GetAnswer(id) ==
  IF CertificateOf(id) = {} THEN NotFoundResponse
  ELSE VerifyGetResponse(TheCertificate(id))

PostAnswer(id, lookup) ==
  IF CertificateOf(id) = {} THEN NotFoundResponse
  ELSE VerifyPostResponse(TheCertificate(id),
                          ChainResult(TheCertificate(id), lookup))

ExposesDetails(response) ==
  response.http = 200 /\ IsSome(response.certificate)

SameVerdict(r, s) ==
  /\ r.http = s.http
  /\ r.isValid = s.isValid
  /\ ExposesDetails(r) <=> ExposesDetails(s)

\* C36: for the same credential id on the same store POST /verify and GET
\* /verify/:credentialId give the same validity flag, the same not-found
\* status, and expose certificate details in exactly the same cases,
\* whatever the indexer answers: an answer of POST agrees with the answer
\* GET gives, and an answer of GET agrees with the answer POST gives under
\* every outcome of the ledger lookup.
C36_VerifyRoutesAgree ==
  /\ (out.op = "verifyPost" /\ out.credentialId # "") =>
       SameVerdict(out.response, GetAnswer(out.credentialId))
  /\ out.op = "verifyGet" =>
       \A l \in LookupOutcomes :
         SameVerdict(out.response, PostAnswer(out.credentialId, l))

C36_Witness ==
  /\ VerifiedExisting
  /\ out.op = "verifyPost"
  /\ out.lookup = "found"
  /\ out.response.blockchainVerified
  /\ ExposesDetails(out.response)
  /\ ExposesDetails(GetAnswer(out.credentialId))

====
